---- MODULE Spec2Model ----
(***************************************************************************)
(* A model of the social graph kept by app/crud/neo4j_crud.py.             *)
(*                                                                         *)
(* The graph store is a property MULTIgraph: a Cypher CREATE always adds a *)
(* new relationship, so every relationship type is modelled by the number  *)
(* of parallel edges per ordered pair of nodes.  Every session.run(query)  *)
(* is one auto-commit transaction and therefore one atomic step; a CRUD    *)
(* function that issues several queries is several steps when requests     *)
(* overlap.  A Cypher clause runs once per row of the preceding MATCH, so  *)
(* the number of matched rows is part of what each operation does.         *)
(***************************************************************************)
EXTENDS Integers, Sequences, FiniteSets, Bags, TLC

\* The player_id values callers supply and the clan_id values generate_id() hands out.
PlayerIds == {"P1", "P2", "P3"}
ClanIds == {"K1", "K2"}
PartyIds == {"Y1", "Y2"}
ConvIds == {"V1", "V2"}

\* The callers of the ledger scenarios (two players) and of the traversal and
\* clan scenarios (all three).
LedgerIds == {"P1", "P2"}

\* Bounds of the model: caps on the parallel edges the graph may hold.
MaxRequests == 2        \* SENT_REQUEST edges in the graph
MaxFriendships == 3     \* FRIENDS_WITH edge pairs in the graph
MaxBlocks == 2          \* BLOCKED edges in the graph
MaxOtherEdges == 1      \* SENT_REQUEST plus BLOCKED edges in the traversal scenarios
MaxLimit == 2           \* largest LIMIT passed to get_friend_suggestions
MaxBelongs == 3         \* BELONGS_TO edges in the graph
MaxJoins == 3           \* ranks handed out per clan
MaxInParty == 3         \* IN_PARTY edges in the graph
MaxInvites == 2         \* INVITED_TO edges in the graph
MaxMessages == 2         \* message ids generate_id() can hand out
MaxTime == 1             \* largest value datetime() reaches
MaxParticipants == 2    \* longest participant_ids list given to create_conversation
MaxMembers == 2          \* MEMBER_OF edges in the graph
MaxFollows == 1          \* FOLLOWS edges in the graph
MaxGraph == 3            \* nodes plus edges in the graph when a request is served
MaxEdges == 3            \* party and clan edges in the disbanding scenarios

VARIABLES
    players,        \* player_id of every (:Player) node
    SENT_REQUEST,   \* SENT_REQUEST[a][b]: number of (a)-[:SENT_REQUEST]->(b) edges
    FRIENDS_WITH,   \* FRIENDS_WITH[a][b]: number of (a)-[:FRIENDS_WITH]->(b) edges
    BLOCKED,        \* BLOCKED[a][b]: number of (a)-[:BLOCKED]->(b) edges
    clans,          \* clan_id of every (:Clan) node
    usedClanIds,    \* clan ids generate_id() has handed out so far
    BELONGS_TO,     \* bag of [player, clan, role, rank] edges
    rankLog,        \* history: per clan, the ranks given to new BELONGS_TO edges, in order
    joinsOnly,      \* history: per clan, no membership was removed since it was last empty
    pending,        \* per caller, a join_clan between its count query and its create query
    parties,        \* party_id of every (:Party) node
    usedPartyIds,   \* party ids generate_id() has handed out so far
    IN_PARTY,       \* bag of [player, party, role] edges
    INVITED_TO,     \* INVITED_TO[p][y]: number of (p)-[:INVITED_TO]->(y) edges
    conversations,  \* conversation_id of every (:Conversation) node
    usedConvIds,    \* conversation ids generate_id() has handed out so far
    MEMBER_OF,      \* MEMBER_OF[p][c]: number of (p)-[:MEMBER_OF]->(c) edges
    messages,       \* the (:Message) nodes: [message_id, conv, sender, timestamp]
    last_message_at, \* per conversation, its last_message_at property (Null until set)
    usedMessageIds, \* message ids generate_id() has handed out so far
    now,            \* the value datetime() returns
    FOLLOWS,        \* FOLLOWS[a][b]: number of (a)-[:FOLLOWS]->(b) edges
    driver,         \* neo4j_db.driver: "none", "open" or "closed"
    connected,      \* neo4j_db.connected
    phase,          \* the application's lifespan: "startup", "serving" or "shutdown"
    probe,          \* history: how the startup probe ended
    last            \* history: the CRUD call that returned most recently

friendVars == <<SENT_REQUEST, FRIENDS_WITH, BLOCKED>>
clanVars == <<clans, usedClanIds, BELONGS_TO, rankLog, joinsOnly, pending>>
partyVars == <<parties, usedPartyIds, IN_PARTY, INVITED_TO>>
msgVars == <<conversations, usedConvIds, MEMBER_OF, messages, last_message_at, usedMessageIds, now>>
followVars == <<FOLLOWS>>
connVars == <<driver, connected, phase, probe>>
vars == <<players, friendVars, clanVars, partyVars, msgVars, followVars, connVars, last>>

NoEdges == [a \in PlayerIds |-> [b \in PlayerIds |-> 0]]
NoInvites == [p \in PlayerIds |-> [y \in PartyIds |-> 0]]
NoMembers == [p \in PlayerIds |-> [c \in ConvIds |-> 0]]

\* The message ids: generate_id() returns a fresh uuid4, in no particular order.
MessageIds == 1..MaxMessages

\* The sender field of a message whose SENT relationship is gone.
NoSender == ""

\* last_message_at: null
Null == "null"

RECURSIVE SumOver(_, _)
SumOver(f, S) ==
    IF S = {} THEN 0
    ELSE LET x == CHOOSE y \in S : TRUE IN f[x] + SumOver(f, S \ {x})

\* Number of edges of one relationship type in the whole graph.
EdgeTotal(rel) ==
    SumOver([pr \in PlayerIds \X PlayerIds |-> rel[pr[1]][pr[2]]], PlayerIds \X PlayerIds)

Min(x, y) == IF x <= y THEN x ELSE y

\* A returned CRUD call: whether it reported success, and how many relationships
\* its MATCH found.
Call(op, a, b, ok, matched) == [op |-> op, a |-> a, b |-> b, ok |-> ok, matched |-> matched]
NoCall == Call("none", "", "", FALSE, 0)
Idle == [clan |-> "", rank |-> 0]

Init ==
    /\ players = {}
    /\ SENT_REQUEST = NoEdges
    /\ FRIENDS_WITH = NoEdges
    /\ BLOCKED = NoEdges
    /\ clans = {}
    /\ usedClanIds = {}
    /\ BELONGS_TO = EmptyBag
    /\ rankLog = [c \in ClanIds |-> <<>>]
    /\ joinsOnly = [c \in ClanIds |-> TRUE]
    /\ pending = [p \in PlayerIds |-> Idle]
    /\ parties = {}
    /\ usedPartyIds = {}
    /\ IN_PARTY = EmptyBag
    /\ INVITED_TO = NoInvites
    /\ conversations = {}
    /\ usedConvIds = {}
    /\ MEMBER_OF = NoMembers
    /\ messages = {}
    /\ last_message_at = [c \in ConvIds |-> Null]
    /\ usedMessageIds = {}
    /\ now = 0
    /\ FOLLOWS = NoEdges
    /\ driver = "none"
    /\ connected = FALSE
    /\ phase = "startup"
    /\ probe = "none"
    /\ last = NoCall

(***************************************************************************)
(* PlayerNodesCRUD                                                         *)
(***************************************************************************)

\* CREATE (p:Player {player_id: $player_id, ...}).  The caller passes the id of
\* a newly registered player, so the id is not yet in the graph.
create_player_node(player_id) ==
    /\ player_id \notin players
    /\ players' = players \cup {player_id}
    /\ UNCHANGED <<friendVars, msgVars, clanVars, partyVars, followVars, connVars>>

\* One relationship type after DETACH DELETE of a player: every edge at the node goes.
Detached(rel, player_id) ==
    [a \in PlayerIds |-> [b \in PlayerIds |->
        IF a = player_id \/ b = player_id THEN 0 ELSE rel[a][b]]]

\* The edges of a bag that a pattern matches, with their multiplicities.
EdgesWhere(edges, matching) ==
    [e \in BagToSet(edges) \cap matching |-> edges[e]]

\* Number of BELONGS_TO edges into a clan (count(m) counts rows, one per edge).
MembersIn(edges, clan_id) ==
    BagCardinality(EdgesWhere(edges, {e \in BagToSet(edges) : e.clan = clan_id}))

\* History flag after memberships were removed: a clan counts as untouched again
\* only when it was emptied while no join_clan on it is in flight.
JoinsOnlyAfter(newEdges) ==
    [c \in ClanIds |->
        IF MembersIn(newEdges, c) = MembersIn(BELONGS_TO, c) THEN joinsOnly[c]
        ELSE MembersIn(newEdges, c) = 0 /\ \A p \in PlayerIds : pending[p].clan # c]

\* MATCH (p:Player {player_id: $player_id}) DETACH DELETE p RETURN count(p)
delete_player_node(player_id) ==
    LET kept == EdgesWhere(BELONGS_TO, {e \in BagToSet(BELONGS_TO) : e.player # player_id}) IN
    /\ players' = players \ {player_id}
    /\ SENT_REQUEST' = Detached(SENT_REQUEST, player_id)
    /\ FRIENDS_WITH' = Detached(FRIENDS_WITH, player_id)
    /\ BLOCKED' = Detached(BLOCKED, player_id)
    /\ BELONGS_TO' = kept
    /\ joinsOnly' = JoinsOnlyAfter(kept)
    /\ IN_PARTY' = EdgesWhere(IN_PARTY, {e \in BagToSet(IN_PARTY) : e.player # player_id})
    /\ INVITED_TO' = [INVITED_TO EXCEPT ![player_id] = [y \in PartyIds |-> 0]]
    /\ MEMBER_OF' = [MEMBER_OF EXCEPT ![player_id] = [c \in ConvIds |-> 0]]
    /\ FOLLOWS' = Detached(FOLLOWS, player_id)
    /\ messages' = {IF m.sender = player_id THEN [m EXCEPT !.sender = NoSender] ELSE m : m \in messages}
    /\ UNCHANGED <<clans, usedClanIds, rankLog, pending, parties, usedPartyIds,
                   conversations, usedConvIds, last_message_at, usedMessageIds, now, connVars>>

\* return record["deleted"] > 0
delete_player_node_ok(player_id) == player_id \in players

(***************************************************************************)
(* FriendshipsCRUD                                                         *)
(***************************************************************************)

\* Rows of MATCH (from:Player {..}) MATCH (to:Player {..}): one if both nodes exist.
BothExist(a, b) == a \in players /\ b \in players

\* MATCH (from) MATCH (to) CREATE (from)-[r:SENT_REQUEST]->(to): one row, one new
\* edge, whenever both nodes exist; the query looks at no existing relationship.
send_friend_request(from_player_id, to_player_id) ==
    IF BothExist(from_player_id, to_player_id)
    THEN /\ EdgeTotal(SENT_REQUEST) < MaxRequests
         /\ SENT_REQUEST' = [SENT_REQUEST EXCEPT ![from_player_id][to_player_id] = @ + 1]
         /\ UNCHANGED <<players, FRIENDS_WITH, BLOCKED, clanVars, partyVars, msgVars, followVars, connVars>>
    ELSE UNCHANGED <<players, friendVars, msgVars, clanVars, partyVars, followVars, connVars>>

\* An accept that creates only the edge from the requester to the accepter.
FriendsAfterAcceptOneWay(from_player_id, to_player_id, rows) ==
    [FRIENDS_WITH EXCEPT ![from_player_id][to_player_id] = @ + rows]

\* CREATE (from)-[f:FRIENDS_WITH]->(to) CREATE (to)-[f2:FRIENDS_WITH]->(from), once
\* per matched SENT_REQUEST row.
FriendsAfterAccept(from_player_id, to_player_id, rows) ==
    [a \in PlayerIds |-> [b \in PlayerIds |->
        FRIENDS_WITH[a][b]
        + (IF a = from_player_id /\ b = to_player_id THEN rows ELSE 0)
        + (IF a = to_player_id /\ b = from_player_id THEN rows ELSE 0)]]

\* An accept that also takes a request sent in the opposite direction.
accept_friend_request_either_way(from_player_id, to_player_id) ==
    LET rows == SENT_REQUEST[from_player_id][to_player_id]
                + (IF from_player_id = to_player_id THEN 0
                   ELSE SENT_REQUEST[to_player_id][from_player_id]) IN
    IF rows > 0
    THEN /\ EdgeTotal(FRIENDS_WITH) + 2 * rows <= 2 * MaxFriendships
         /\ SENT_REQUEST' = [x \in PlayerIds |-> [y \in PlayerIds |->
                IF {x, y} = {from_player_id, to_player_id} THEN 0 ELSE SENT_REQUEST[x][y]]]
         /\ FRIENDS_WITH' = FriendsAfterAccept(from_player_id, to_player_id, rows)
         /\ UNCHANGED <<players, BLOCKED, clanVars, partyVars, msgVars, followVars, connVars>>
    ELSE UNCHANGED <<players, friendVars, msgVars, clanVars, partyVars, followVars, connVars>>

\* MATCH (from)-[r:SENT_REQUEST]->(to) DELETE r CREATE ... CREATE ...: a single query.
accept_friend_request(from_player_id, to_player_id) ==
    LET rows == SENT_REQUEST[from_player_id][to_player_id] IN
    IF rows > 0
    THEN /\ EdgeTotal(FRIENDS_WITH) + 2 * rows <= 2 * MaxFriendships
         /\ SENT_REQUEST' = [SENT_REQUEST EXCEPT ![from_player_id][to_player_id] = 0]
         /\ FRIENDS_WITH' = FriendsAfterAccept(from_player_id, to_player_id, rows)
         /\ UNCHANGED <<players, BLOCKED, clanVars, partyVars, msgVars, followVars, connVars>>
    ELSE UNCHANGED <<players, friendVars, msgVars, clanVars, partyVars, followVars, connVars>>

\* MATCH (from)-[r:SENT_REQUEST]->(to) DELETE r RETURN count(r) as deleted
decline_friend_request(from_player_id, to_player_id) ==
    /\ SENT_REQUEST' = [SENT_REQUEST EXCEPT ![from_player_id][to_player_id] = 0]
    /\ UNCHANGED <<players, FRIENDS_WITH, BLOCKED, clanVars, partyVars, msgVars, followVars, connVars>>

\* Rows of the undirected pattern (a)-[f:FRIENDS_WITH]-(b): every edge in either
\* direction, a loop once.
FriendEdgesBetween(a, b) ==
    IF a = b THEN FRIENDS_WITH[a][a] ELSE FRIENDS_WITH[a][b] + FRIENDS_WITH[b][a]

\* FRIENDS_WITH after DELETE f for every row of (a)-[f:FRIENDS_WITH]-(b).
FriendsAfterDelete(a, b) ==
    [x \in PlayerIds |-> [y \in PlayerIds |->
        IF (x = a /\ y = b) \/ (x = b /\ y = a) THEN 0 ELSE FRIENDS_WITH[x][y]]]

\* A remove_friend that matches the directed pattern (p)-[f:FRIENDS_WITH]->(friend).
remove_friend_one_way(player_id, friend_id) ==
    /\ FRIENDS_WITH' = [FRIENDS_WITH EXCEPT ![player_id][friend_id] = 0]
    /\ UNCHANGED <<players, SENT_REQUEST, BLOCKED, clanVars, partyVars, msgVars, followVars, connVars>>

\* MATCH (p)-[f:FRIENDS_WITH]-(friend) DELETE f RETURN count(f) as deleted
remove_friend(player_id, friend_id) ==
    /\ FRIENDS_WITH' = FriendsAfterDelete(player_id, friend_id)
    /\ UNCHANGED <<players, SENT_REQUEST, BLOCKED, clanVars, partyVars, msgVars, followVars, connVars>>

(***************************************************************************)
(* BlockingCRUD                                                            *)
(***************************************************************************)

\* Rows that reach DELETE f / CREATE in block_player: OPTIONAL MATCH yields one
\* row per FRIENDS_WITH edge between the pair, or a single row with f = null.
BlockRows(blocker_id, blocked_id) ==
    IF FriendEdgesBetween(blocker_id, blocked_id) = 0 THEN 1
    ELSE FriendEdgesBetween(blocker_id, blocked_id)

\* A block_player that creates the BLOCKED edge and forgets the friendship.
block_player_keeping_friends(blocker_id, blocked_id) ==
    IF BothExist(blocker_id, blocked_id)
    THEN /\ EdgeTotal(BLOCKED) + 1 <= MaxBlocks
         /\ BLOCKED' = [BLOCKED EXCEPT ![blocker_id][blocked_id] = @ + 1]
         /\ UNCHANGED <<players, SENT_REQUEST, FRIENDS_WITH, clanVars, partyVars, msgVars, followVars, connVars>>
    ELSE UNCHANGED <<players, friendVars, msgVars, clanVars, partyVars, followVars, connVars>>

\* MATCH (blocker) MATCH (blocked) OPTIONAL MATCH (blocker)-[f:FRIENDS_WITH]-(blocked)
\* DELETE f CREATE (blocker)-[b:BLOCKED]->(blocked): the CREATE runs once per row.
block_player(blocker_id, blocked_id) ==
    IF BothExist(blocker_id, blocked_id)
    THEN /\ EdgeTotal(BLOCKED) + BlockRows(blocker_id, blocked_id) <= MaxBlocks
         /\ FRIENDS_WITH' = FriendsAfterDelete(blocker_id, blocked_id)
         /\ BLOCKED' = [BLOCKED EXCEPT ![blocker_id][blocked_id] =
                            @ + BlockRows(blocker_id, blocked_id)]
         /\ UNCHANGED <<players, SENT_REQUEST, clanVars, partyVars, msgVars, followVars, connVars>>
    ELSE UNCHANGED <<players, friendVars, msgVars, clanVars, partyVars, followVars, connVars>>

\* MATCH (blocker)-[b:BLOCKED]->(blocked) DELETE b RETURN count(b) as deleted
unblock_player(blocker_id, blocked_id) ==
    /\ BLOCKED' = [BLOCKED EXCEPT ![blocker_id][blocked_id] = 0]
    /\ UNCHANGED <<players, SENT_REQUEST, FRIENDS_WITH, clanVars, partyVars, msgVars, followVars, connVars>>

(***************************************************************************)
(* Read queries.  A result is the bag of its rows' player ids, or for the  *)
(* ordered query the set of row sequences the store may return.            *)
(***************************************************************************)

\* The bag that holds x exactly count[x] times, for the x with count[x] > 0.
RowsBag(count) == [x \in {y \in DOMAIN count : count[y] > 0} |-> count[x]]

\* MATCH (p)-[f:FRIENDS_WITH]->(friend:Player) RETURN friend.player_id, ...
get_friends(player_id) ==
    RowsBag([friend \in PlayerIds |-> FRIENDS_WITH[player_id][friend]])

\* MATCH (p)-[b:BLOCKED]->(blocked:Player) RETURN blocked.player_id, ...
get_blocked_players(player_id) ==
    RowsBag([blocked \in PlayerIds |-> BLOCKED[player_id][blocked]])

\* MATCH (from:Player)-[r:SENT_REQUEST]->(to) RETURN from.player_id, ...
get_pending_requests(player_id) ==
    RowsBag([from \in PlayerIds |-> SENT_REQUEST[from][player_id]])

\* Rows of (p1)-[:FRIENDS_WITH]->(mutual)<-[:FRIENDS_WITH]-(p2) for one mutual: a
\* pattern never uses one relationship twice, so with p1 = p2 the two edges
\* are two different parallel edges.
MutualRows(player1_id, player2_id, mutual) ==
    IF player1_id = player2_id
    THEN FRIENDS_WITH[player1_id][mutual] * (FRIENDS_WITH[player1_id][mutual] - 1)
    ELSE FRIENDS_WITH[player1_id][mutual] * FRIENDS_WITH[player2_id][mutual]

get_mutual_friends(player1_id, player2_id) ==
    RowsBag([mutual \in PlayerIds |-> MutualRows(player1_id, player2_id, mutual)])

\* WHERE NOT (p)-[:FRIENDS_WITH]->(suggestion) AND NOT (p)-[:BLOCKED]->(suggestion)
\*   AND suggestion.player_id <> $player_id
SuggestionAllowed(player_id, suggestion) ==
    /\ FRIENDS_WITH[player_id][suggestion] = 0
    /\ BLOCKED[player_id][suggestion] = 0
    /\ suggestion # player_id

\* count(friend) for one suggestion: the rows of
\* (p)-[:FRIENDS_WITH]->(friend)-[:FRIENDS_WITH]->(suggestion), one per pair of edges.
MutualFriendsCount(player_id, suggestion) ==
    SumOver([friend \in PlayerIds |->
                FRIENDS_WITH[player_id][friend] * FRIENDS_WITH[friend][suggestion]],
            PlayerIds)

\* The groups of the aggregation: one per suggestion with at least one row.
Suggestions(player_id) ==
    {s \in PlayerIds : SuggestionAllowed(player_id, s) /\ MutualFriendsCount(player_id, s) > 0}

\* ORDER BY mutual_friends DESC: every order of the groups that is non-increasing
\* in the count (the store breaks ties as it likes).
OrderedSuggestions(player_id) ==
    LET S == Suggestions(player_id)
        n == Cardinality(S)
    IN {q \in [1..n -> S] :
            /\ \A i, j \in 1..n : i # j => q[i] # q[j]
            /\ \A i, j \in 1..n :
                   i < j => MutualFriendsCount(player_id, q[i]) >= MutualFriendsCount(player_id, q[j])}

\* ... RETURN suggestion.player_id, count(friend) as mutual_friends
\*     ORDER BY mutual_friends DESC LIMIT $limit
get_friend_suggestions(player_id, limit) ==
    {[i \in 1..Min(limit, Len(q)) |->
         [player_id |-> q[i], mutual_friends |-> MutualFriendsCount(player_id, q[i])]]
     : q \in OrderedSuggestions(player_id)}

(***************************************************************************)
(* routes/neo4j_routes.py: the status a handler answers with.  A handler   *)
(* whose CRUD call returned None or False raises HTTPException.            *)
(***************************************************************************)
HTTP_OK == 200
HTTP_CREATED == 201
HTTP_BAD_REQUEST == 400
HTTP_NOT_FOUND == 404
HTTP_UNAVAILABLE == 503

\* The handlers declared with status_code=201.
CreatedOps ==
    {"create_player_node", "send_friend_request", "block_player", "create_party",
     "create_conversation", "send_message", "create_clan", "follow_player"}

\* The handlers that raise HTTPException(status_code=400) on a falsy result; the
\* delete handlers raise HTTPException(status_code=404).
BadRequestOps ==
    {"create_player_node", "send_friend_request", "accept_friend_request", "block_player",
     "create_party", "invite_to_party", "join_party", "create_conversation", "send_message",
     "create_clan", "join_clan", "follow_player"}

\* Status of the response to a recorded call.
Status(c) ==
    IF c.op = "require_neo4j" THEN HTTP_UNAVAILABLE
    ELSE IF c.ok
    THEN (IF c.op \in CreatedOps THEN HTTP_CREATED ELSE HTTP_OK)
    ELSE (IF c.op \in BadRequestOps THEN HTTP_BAD_REQUEST ELSE HTTP_NOT_FOUND)

(***************************************************************************)
(* The ledger specification: two players call the friendship and blocking  *)
(* operations one after the other; `last` records the call that returned.  *)
(***************************************************************************)
Next ==
    \/ \E p \in LedgerIds :
          create_player_node(p) /\ last' = Call("create_player_node", p, "", TRUE, 0)
    \/ \E p \in LedgerIds :
          /\ delete_player_node(p)
          /\ last' = Call("delete_player_node", p, "", delete_player_node_ok(p), 0)
    \/ \E a, b \in LedgerIds :
          /\ send_friend_request(a, b)
          /\ last' = Call("send_friend_request", a, b, BothExist(a, b), 0)
    \/ \E a, b \in LedgerIds :
          /\ accept_friend_request(a, b)
          /\ last' = Call("accept_friend_request", a, b, SENT_REQUEST[a][b] > 0, SENT_REQUEST[a][b])
    \/ \E a, b \in LedgerIds :
          /\ decline_friend_request(a, b)
          /\ last' = Call("decline_friend_request", a, b, SENT_REQUEST[a][b] > 0, SENT_REQUEST[a][b])
    \/ \E a, b \in LedgerIds :
          /\ remove_friend(a, b)
          /\ last' = Call("remove_friend", a, b, FriendEdgesBetween(a, b) > 0, FriendEdgesBetween(a, b))
    \/ \E a, b \in LedgerIds :
          /\ block_player(a, b)
          /\ last' = Call("block_player", a, b, BothExist(a, b), FriendEdgesBetween(a, b))
    \/ \E a, b \in LedgerIds :
          /\ unblock_player(a, b)
          /\ last' = Call("unblock_player", a, b, BLOCKED[a][b] > 0, BLOCKED[a][b])

Spec == Init /\ [][Next]_vars

(***************************************************************************)
(* The traversal specification: three players build the graph the read     *)
(* queries run on.                                                         *)
(***************************************************************************)
FewOtherEdges(sent, blocks) == EdgeTotal(sent) + EdgeTotal(blocks) <= MaxOtherEdges

NextGraph ==
    \/ \E p \in PlayerIds : create_player_node(p) /\ UNCHANGED last
    \/ \E p \in PlayerIds : delete_player_node(p) /\ UNCHANGED last
    \/ \E a, b \in PlayerIds :
          /\ send_friend_request(a, b)
          /\ FewOtherEdges(SENT_REQUEST', BLOCKED')
          /\ UNCHANGED last
    \/ \E a, b \in PlayerIds : accept_friend_request(a, b) /\ UNCHANGED last
    \/ \E a, b \in PlayerIds : decline_friend_request(a, b) /\ UNCHANGED last
    \/ \E a, b \in PlayerIds : remove_friend(a, b) /\ UNCHANGED last
    \/ \E a, b \in PlayerIds :
          /\ block_player(a, b)
          /\ FewOtherEdges(SENT_REQUEST', BLOCKED')
          /\ UNCHANGED last
    \/ \E a, b \in PlayerIds : unblock_player(a, b) /\ UNCHANGED last

SpecGraph == Init /\ [][NextGraph]_vars

(***************************************************************************)
(* ClanCRUD                                                                *)
(***************************************************************************)

Membership(player_id, clan_id, role, rank) ==
    [player |-> player_id, clan |-> clan_id, role |-> role, rank |-> rank]

\* clan_id = generate_id(); MATCH (owner) CREATE (clan:Clan {...})
\* CREATE (owner)-[:BELONGS_TO {role: 'owner', rank: 1}]->(clan)
create_clan(clan_id, owner_id) ==
    /\ clan_id \notin usedClanIds
    /\ IF owner_id \in players
       THEN /\ BagCardinality(BELONGS_TO) < MaxBelongs
            /\ clans' = clans \cup {clan_id}
            /\ usedClanIds' = usedClanIds \cup {clan_id}
            /\ BELONGS_TO' = BELONGS_TO (+) SetToBag({Membership(owner_id, clan_id, "owner", 1)})
            /\ rankLog' = [rankLog EXCEPT ![clan_id] = <<1>>]
            /\ joinsOnly' = [joinsOnly EXCEPT ![clan_id] = TRUE]
            /\ UNCHANGED <<players, friendVars, msgVars, partyVars, pending, followVars, connVars>>
       ELSE UNCHANGED <<players, friendVars, msgVars, clanVars, partyVars, followVars, connVars>>

\* A rank that is the member count itself, without the + 1.
join_clan_rank_member_count(clan_id) == MembersIn(BELONGS_TO, clan_id)

\* count_query: MATCH (clan) OPTIONAL MATCH (m:Player)-[:BELONGS_TO]->(clan)
\* RETURN count(m); rank = (count_record["member_count"] or 0) + 1
join_clan_rank(clan_id) == MembersIn(BELONGS_TO, clan_id) + 1

\* query: MATCH (player) MATCH (clan)
\* CREATE (player)-[:BELONGS_TO {role: 'member', rank: $rank}]->(clan)
join_clan_create(clan_id, player_id, rank) ==
    IF player_id \in players /\ clan_id \in clans
    THEN /\ BagCardinality(BELONGS_TO) < MaxBelongs
         /\ Len(rankLog[clan_id]) < MaxJoins
         /\ BELONGS_TO' = BELONGS_TO (+) SetToBag({Membership(player_id, clan_id, "member", rank)})
         /\ rankLog' = [rankLog EXCEPT ![clan_id] = Append(@, rank)]
         /\ UNCHANGED <<players, friendVars, msgVars, partyVars, clans, usedClanIds, joinsOnly, followVars, connVars>>
    ELSE UNCHANGED <<players, friendVars, msgVars, partyVars, clans, usedClanIds, BELONGS_TO, rankLog, joinsOnly, followVars, connVars>>

\* join_clan run by one caller with no other request in between its two queries.
join_clan(clan_id, player_id) ==
    /\ clan_id \in usedClanIds
    /\ pending[player_id] = Idle
    /\ join_clan_create(clan_id, player_id, join_clan_rank(clan_id))
    /\ UNCHANGED pending

\* join_clan up to `rank = ... + 1`: the caller holds the rank it computed.
join_clan_count(clan_id, player_id) ==
    /\ clan_id \in usedClanIds
    /\ pending[player_id] = Idle
    /\ pending' = [pending EXCEPT ![player_id] = [clan |-> clan_id, rank |-> join_clan_rank(clan_id)]]
    /\ UNCHANGED <<players, friendVars, msgVars, partyVars, clans, usedClanIds, BELONGS_TO, rankLog, joinsOnly, followVars, connVars>>

\* join_clan from its second query to its return.
join_clan_finish(player_id) ==
    /\ pending[player_id] # Idle
    /\ join_clan_create(pending[player_id].clan, player_id, pending[player_id].rank)
    /\ pending' = [pending EXCEPT ![player_id] = Idle]

\* MATCH (p)-[bt:BELONGS_TO]->(clan {clan_id}) DELETE bt RETURN count(bt) as deleted
leave_clan(clan_id, player_id) ==
    LET kept == EdgesWhere(BELONGS_TO, {e \in BagToSet(BELONGS_TO) : ~(e.clan = clan_id /\ e.player = player_id)}) IN
    /\ BELONGS_TO' = kept
    /\ joinsOnly' = JoinsOnlyAfter(kept)
    /\ UNCHANGED <<players, friendVars, msgVars, partyVars, clans, usedClanIds, rankLog, pending, followVars, connVars>>

\* MATCH (clan:Clan {clan_id}) DETACH DELETE clan RETURN count(clan) as deleted
disband_clan(clan_id) ==
    /\ clans' = clans \ {clan_id}
    /\ BELONGS_TO' = EdgesWhere(BELONGS_TO, {e \in BagToSet(BELONGS_TO) : e.clan # clan_id})
    /\ UNCHANGED <<players, friendVars, msgVars, partyVars, usedClanIds, rankLog, joinsOnly, pending, followVars, connVars>>

(***************************************************************************)
(* The clan specifications: three players create, join, leave and disband  *)
(* clans; in SpecClan one call at a time, in SpecClanConc with the two     *)
(* queries of join_clan interleaved with other requests.                   *)
(***************************************************************************)
NextClan ==
    \/ \E p \in PlayerIds : create_player_node(p) /\ UNCHANGED last
    \/ \E p \in PlayerIds : delete_player_node(p) /\ UNCHANGED last
    \/ \E c \in ClanIds, p \in PlayerIds : create_clan(c, p) /\ UNCHANGED last
    \/ \E c \in ClanIds, p \in PlayerIds : join_clan(c, p) /\ UNCHANGED last
    \/ \E c \in ClanIds, p \in PlayerIds : leave_clan(c, p) /\ UNCHANGED last
    \/ \E c \in ClanIds : disband_clan(c) /\ UNCHANGED last

SpecClan == Init /\ [][NextClan]_vars

\* The overlapping requests all address the first clan.
FirstClan == {"K1"}

NextClanConc ==
    \/ \E p \in PlayerIds : create_player_node(p) /\ UNCHANGED last
    \/ \E p \in PlayerIds : delete_player_node(p) /\ UNCHANGED last
    \/ \E c \in FirstClan, p \in PlayerIds : create_clan(c, p) /\ UNCHANGED last
    \/ \E c \in FirstClan, p \in PlayerIds : join_clan_count(c, p) /\ UNCHANGED last
    \/ \E p \in PlayerIds : join_clan_finish(p) /\ UNCHANGED last
    \/ \E c \in FirstClan, p \in PlayerIds : leave_clan(c, p) /\ UNCHANGED last
    \/ \E c \in FirstClan : disband_clan(c) /\ UNCHANGED last

SpecClanConc == Init /\ [][NextClanConc]_vars

(***************************************************************************)
(* PartyCRUD                                                               *)
(***************************************************************************)

PartyEdge(player_id, party_id, role) ==
    [player |-> player_id, party |-> party_id, role |-> role]

\* Number of IN_PARTY edges from a player to a party.
InPartyEdges(edges, player_id, party_id) ==
    BagCardinality(EdgesWhere(edges,
        {e \in BagToSet(edges) : e.player = player_id /\ e.party = party_id}))

\* Number of INVITED_TO edges in the whole graph.
InviteTotal(invites) ==
    SumOver([pr \in PlayerIds \X PartyIds |-> invites[pr[1]][pr[2]]], PlayerIds \X PartyIds)

\* A create_party that creates the Party node in a query of its own before it
\* looks for the leader.
create_party_node_first(party_id, leader_id) ==
    /\ party_id \notin usedPartyIds
    /\ BagCardinality(IN_PARTY) < MaxInParty
    /\ parties' = parties \cup {party_id}
    /\ usedPartyIds' = usedPartyIds \cup {party_id}
    /\ IN_PARTY' = IF leader_id \in players
                   THEN IN_PARTY (+) SetToBag({PartyEdge(leader_id, party_id, "leader")})
                   ELSE IN_PARTY
    /\ UNCHANGED <<players, friendVars, msgVars, clanVars, INVITED_TO, followVars, connVars>>

\* party_id = generate_id(); MATCH (leader) CREATE (party:Party {...})
\* CREATE (leader)-[:IN_PARTY {role: 'leader'}]->(party)
create_party(party_id, leader_id) ==
    /\ party_id \notin usedPartyIds
    /\ IF leader_id \in players
       THEN /\ BagCardinality(IN_PARTY) < MaxInParty
            /\ parties' = parties \cup {party_id}
            /\ usedPartyIds' = usedPartyIds \cup {party_id}
            /\ IN_PARTY' = IN_PARTY (+) SetToBag({PartyEdge(leader_id, party_id, "leader")})
            /\ UNCHANGED <<players, friendVars, msgVars, clanVars, INVITED_TO, followVars, connVars>>
       ELSE UNCHANGED <<players, friendVars, msgVars, clanVars, partyVars, followVars, connVars>>

\* Rows of MATCH (party:Party {..}) MATCH (p:Player {..}): one if both nodes exist.
PartyAndPlayerExist(party_id, player_id) == party_id \in parties /\ player_id \in players

\* MATCH (party) MATCH (invitee) CREATE (invitee)-[:INVITED_TO {invited_by: ..}]->(party);
\* $inviter_id is stored on the edge and matched against nothing.
invite_to_party(party_id, inviter_id, invitee_id) ==
    IF PartyAndPlayerExist(party_id, invitee_id)
    THEN /\ InviteTotal(INVITED_TO) < MaxInvites
         /\ INVITED_TO' = [INVITED_TO EXCEPT ![invitee_id][party_id] = @ + 1]
         /\ UNCHANGED <<players, friendVars, msgVars, clanVars, parties, usedPartyIds, IN_PARTY, followVars, connVars>>
    ELSE UNCHANGED <<players, friendVars, msgVars, clanVars, partyVars, followVars, connVars>>

\* Rows that reach DELETE i / CREATE in join_party: OPTIONAL MATCH yields one row
\* per INVITED_TO edge from the player to the party, or a single row with i = null.
JoinRows(party_id, player_id) ==
    IF INVITED_TO[player_id][party_id] = 0 THEN 1 ELSE INVITED_TO[player_id][party_id]

\* MATCH (player) MATCH (party) OPTIONAL MATCH (player)-[i:INVITED_TO]->(party)
\* DELETE i CREATE (player)-[:IN_PARTY {role: 'member'}]->(party): once per row.
join_party(party_id, player_id) ==
    IF PartyAndPlayerExist(party_id, player_id)
    THEN /\ BagCardinality(IN_PARTY) + JoinRows(party_id, player_id) <= MaxInParty
         /\ INVITED_TO' = [INVITED_TO EXCEPT ![player_id][party_id] = 0]
         /\ IN_PARTY' = IN_PARTY (+)
                [e \in {PartyEdge(player_id, party_id, "member")} |-> JoinRows(party_id, player_id)]
         /\ UNCHANGED <<players, friendVars, msgVars, clanVars, parties, usedPartyIds, followVars, connVars>>
    ELSE UNCHANGED <<players, friendVars, msgVars, clanVars, partyVars, followVars, connVars>>

\* MATCH (p)-[ip:IN_PARTY]->(party {party_id}) DELETE ip RETURN count(ip) as deleted
leave_party(party_id, player_id) ==
    /\ IN_PARTY' = EdgesWhere(IN_PARTY,
            {e \in BagToSet(IN_PARTY) : ~(e.party = party_id /\ e.player = player_id)})
    /\ UNCHANGED <<players, friendVars, msgVars, clanVars, parties, usedPartyIds, INVITED_TO, followVars, connVars>>

\* A disband_party that deletes the node and its IN_PARTY relationships only.
disband_party_keeping_invites(party_id) ==
    /\ parties' = parties \ {party_id}
    /\ IN_PARTY' = EdgesWhere(IN_PARTY, {e \in BagToSet(IN_PARTY) : e.party # party_id})
    /\ UNCHANGED <<players, friendVars, msgVars, clanVars, usedPartyIds, INVITED_TO,
                   followVars, connVars>>

\* MATCH (party:Party {party_id}) DETACH DELETE party RETURN count(party) as deleted
disband_party(party_id) ==
    /\ parties' = parties \ {party_id}
    /\ IN_PARTY' = EdgesWhere(IN_PARTY, {e \in BagToSet(IN_PARTY) : e.party # party_id})
    /\ INVITED_TO' = [p \in PlayerIds |-> [INVITED_TO[p] EXCEPT ![party_id] = 0]]
    /\ UNCHANGED <<players, friendVars, msgVars, clanVars, usedPartyIds, followVars, connVars>>

(***************************************************************************)
(* The party specification: two players create, invite to, join, leave and *)
(* disband parties one call at a time; `last` records the call that        *)
(* returned, with the party in `a` and the player in `b`.                  *)
(***************************************************************************)
NextParty ==
    \/ \E p \in LedgerIds :
          create_player_node(p) /\ last' = Call("create_player_node", p, "", TRUE, 0)
    \/ \E y \in PartyIds, p \in LedgerIds :
          /\ create_party(y, p)
          /\ last' = Call("create_party", y, p, p \in players, 0)
    \/ \E y \in PartyIds, p, q \in LedgerIds :
          /\ invite_to_party(y, p, q)
          /\ last' = Call("invite_to_party", y, q, PartyAndPlayerExist(y, q), 0)
    \/ \E y \in PartyIds, p \in LedgerIds :
          /\ join_party(y, p)
          /\ last' = Call("join_party", y, p, PartyAndPlayerExist(y, p), INVITED_TO[p][y])
    \/ \E y \in PartyIds, p \in LedgerIds :
          /\ leave_party(y, p)
          /\ last' = Call("leave_party", y, p, InPartyEdges(IN_PARTY, p, y) > 0,
                          InPartyEdges(IN_PARTY, p, y))
    \/ \E y \in PartyIds :
          /\ disband_party(y)
          /\ last' = Call("disband_party", y, "", y \in parties, 0)

SpecParty == Init /\ [][NextParty]_vars

(***************************************************************************)
(* MessagingCRUD                                                           *)
(***************************************************************************)

\* The participant_ids lists a caller may pass: any players, in any order, with
\* repetitions.
ParticipantLists == UNION {[1..n -> LedgerIds] : n \in 0..MaxParticipants}

\* How many add_query runs of the loop name one player.
Occurrences(participant_ids, player_id) ==
    Cardinality({i \in DOMAIN participant_ids : participant_ids[i] = player_id})

\* Number of MEMBER_OF edges in the whole graph.
MemberTotal(members) ==
    SumOver([pr \in PlayerIds \X ConvIds |-> members[pr[1]][pr[2]]], PlayerIds \X ConvIds)

\* MEMBER_OF after the loop `for player_id in participant_ids`: each add_query
\* MATCHes the conversation and the player and CREATEs one edge; it creates
\* nothing, and raises nothing, when the player node does not exist.
MembersAfterCreate(conv_id, participant_ids) ==
    [p \in PlayerIds |->
        IF p \in players
        THEN [MEMBER_OF[p] EXCEPT ![conv_id] = @ + Occurrences(participant_ids, p)]
        ELSE MEMBER_OF[p]]

\* conversation_id = generate_id(); CREATE (c:Conversation {...}); then the loop;
\* return dict(conv_record), which the CREATE always yields.
create_conversation(conv_id, participant_ids) ==
    /\ conv_id \notin usedConvIds
    /\ MemberTotal(MembersAfterCreate(conv_id, participant_ids)) <= MaxMembers
    /\ conversations' = conversations \cup {conv_id}
    /\ usedConvIds' = usedConvIds \cup {conv_id}
    /\ MEMBER_OF' = MembersAfterCreate(conv_id, participant_ids)
    /\ UNCHANGED <<players, friendVars, clanVars, partyVars,
                   messages, last_message_at, usedMessageIds, now, followVars, connVars>>

\* Rows of MATCH (c:Conversation {..}) MATCH (sender:Player {..}).
ConvAndSenderExist(conversation_id, sender_id) ==
    conversation_id \in conversations /\ sender_id \in players

Message(message_id, conversation_id, sender_id, timestamp) ==
    [message_id |-> message_id, conv |-> conversation_id,
     sender |-> sender_id, timestamp |-> timestamp]

\* message_id = generate_id(); MATCH (c) MATCH (sender) CREATE (m:Message {...})
\* CREATE (sender)-[:SENT]->(m) CREATE (c)-[:CONTAINS]->(m)
\* SET c.last_message_at = datetime()
send_message(message_id, conversation_id, sender_id) ==
    /\ message_id \in MessageIds \ usedMessageIds
    /\ IF ConvAndSenderExist(conversation_id, sender_id)
       THEN /\ messages' = messages \cup {Message(message_id, conversation_id, sender_id, now)}
            /\ last_message_at' = [last_message_at EXCEPT ![conversation_id] = now]
            /\ usedMessageIds' = usedMessageIds \cup {message_id}
            /\ UNCHANGED <<players, friendVars, clanVars, partyVars,
                           conversations, usedConvIds, MEMBER_OF, now, followVars, connVars>>
       ELSE UNCHANGED <<players, friendVars, clanVars, partyVars, msgVars, followVars, connVars>>

\* datetime() moves on between two queries.
clock_tick ==
    /\ now < MaxTime
    /\ now' = now + 1
    /\ UNCHANGED <<players, friendVars, clanVars, partyVars,
                   conversations, usedConvIds, MEMBER_OF, messages, last_message_at,
                   usedMessageIds, followVars, connVars>>

\* MATCH (m:Message {message_id}) DETACH DELETE m RETURN count(m) as deleted
delete_message(message_id) ==
    /\ messages' = {m \in messages : m.message_id # message_id}
    /\ UNCHANGED <<players, friendVars, clanVars, partyVars,
                   conversations, usedConvIds, MEMBER_OF, last_message_at, usedMessageIds, now, followVars, connVars>>

\* MATCH (p)-[m:MEMBER_OF]->(c) DELETE m RETURN count(m) as deleted
leave_conversation(player_id, conversation_id) ==
    /\ MEMBER_OF' = [MEMBER_OF EXCEPT ![player_id][conversation_id] = 0]
    /\ UNCHANGED <<players, friendVars, clanVars, partyVars,
                   conversations, usedConvIds, messages, last_message_at, usedMessageIds, now, followVars, connVars>>

\* Rows of MATCH (c {conv_id})-[:CONTAINS]->(m) MATCH (sender:Player)-[:SENT]->(m):
\* the messages of the conversation that still have a SENT relationship.
MessageRows(conversation_id) ==
    {m \in messages : m.conv = conversation_id /\ m.sender # NoSender}

\* ORDER BY m.timestamp DESC: every arrangement of the rows with non-increasing
\* timestamps; the store fixes no order among rows with equal timestamps.
TimestampDesc(rows) ==
    {s \in [1..Cardinality(rows) -> rows] :
        /\ \A i, j \in DOMAIN s : i # j => s[i] # s[j]
        /\ \A i, j \in DOMAIN s : i < j => s[i].timestamp >= s[j].timestamp}

\* SKIP $offset LIMIT $limit
SkipLimit(s, offset, limit) ==
    IF offset >= Len(s) \/ limit = 0 THEN <<>>
    ELSE SubSeq(s, offset + 1, Min(offset + limit, Len(s)))

\* The results get_messages may return.
get_messages(conversation_id, limit, offset) ==
    {SkipLimit(s, offset, limit) : s \in TimestampDesc(MessageRows(conversation_id))}

(***************************************************************************)
(* The messaging specification: two players create conversations, send and *)
(* delete messages, leave, and are deleted, one call at a time; `last`     *)
(* records the call that returned, with the conversation (or message) in   *)
(* `a` and the player (or participant list) in `b`.                        *)
(***************************************************************************)
NextMsg ==
    \/ \E p \in LedgerIds :
          create_player_node(p) /\ last' = Call("create_player_node", p, "", TRUE, 0)
    \/ \E p \in LedgerIds :
          /\ delete_player_node(p)
          /\ last' = Call("delete_player_node", p, "", delete_player_node_ok(p), 0)
    \/ \E c \in ConvIds, ps \in ParticipantLists :
          /\ create_conversation(c, ps)
          /\ last' = Call("create_conversation", c, ps, TRUE, 0)
    \/ \E m \in MessageIds, c \in ConvIds, p \in LedgerIds :
          /\ send_message(m, c, p)
          /\ last' = Call("send_message", c, p, ConvAndSenderExist(c, p), MEMBER_OF[p][c])
    \/ clock_tick /\ UNCHANGED last
    \/ \E m \in MessageIds :
          /\ delete_message(m)
          /\ last' = Call("delete_message", m, "", \E x \in messages : x.message_id = m, 0)
    \/ \E p \in LedgerIds, c \in ConvIds :
          /\ leave_conversation(p, c)
          /\ last' = Call("leave_conversation", c, p, MEMBER_OF[p][c] > 0, MEMBER_OF[p][c])

SpecMsg == Init /\ [][NextMsg]_vars

(***************************************************************************)
(* FollowCRUD                                                              *)
(***************************************************************************)

\* MATCH (follower) MATCH (following) CREATE (follower)-[:FOLLOWS]->(following)
follow_player(follower_id, following_id) ==
    IF BothExist(follower_id, following_id)
    THEN /\ EdgeTotal(FOLLOWS) < MaxFollows
         /\ FOLLOWS' = [FOLLOWS EXCEPT ![follower_id][following_id] = @ + 1]
         /\ UNCHANGED <<players, friendVars, clanVars, partyVars, msgVars, connVars>>
    ELSE UNCHANGED <<players, friendVars, clanVars, partyVars, msgVars, followVars, connVars>>

(***************************************************************************)
(* database/neo4j_db.py and the require_neo4j dependency of the routers    *)
(***************************************************************************)

\* How the probe `session.run("RETURN 1")` can end: it returns, or one of the
\* three except clauses catches what it (or the driver constructor) raised.
ProbeOutcomes == {"ok", "ServiceUnavailable", "AuthError", "Exception"}

\* The seven routers declared with dependencies=[Depends(require_neo4j)].
Routers ==
    {"player_nodes_router", "friends_router", "blocking_router", "messaging_router",
     "party_router", "clan_router", "follow_router"}

\* Everything stored in the Graph Store.
graphVars == <<players, friendVars, clanVars, partyVars, msgVars, followVars>>

\* A connect_neo4j that raises the flag before the probe has answered.
connect_neo4j_flag_first(outcome) ==
    /\ phase = "startup"
    /\ driver' \in (IF outcome = "Exception" THEN {"none", "open"} ELSE {"open"})
    /\ connected' = TRUE
    /\ probe' = outcome
    /\ phase' = "serving"
    /\ UNCHANGED <<graphVars, last>>

\* Called once by the application's lifespan before any request is served:
\* create the driver, run the probe, set connected = True; every except clause
\* sets connected = False.  Only an exception of the driver constructor leaves
\* the driver None.
connect_neo4j(outcome) ==
    /\ phase = "startup"
    /\ driver' \in (IF outcome = "Exception" THEN {"none", "open"} ELSE {"open"})
    /\ connected' = (outcome = "ok")
    /\ probe' = outcome
    /\ phase' = "serving"
    /\ UNCHANGED <<graphVars, last>>

\* Called once by the lifespan at shutdown: closes the driver, leaves the flag.
close_neo4j ==
    /\ phase = "serving"
    /\ phase' = "shutdown"
    /\ driver' = IF driver = "open" /\ connected THEN "closed" ELSE driver
    /\ UNCHANGED <<graphVars, connected, probe, last>>

is_neo4j_connected == connected

\* require_neo4j raising HTTPException(status_code=503): the handler of the
\* request never runs.
Unavailable(router) ==
    /\ last' = Call("require_neo4j", router, "", FALSE, 0)
    /\ UNCHANGED <<graphVars, connVars>>

\* Nodes plus edges in the Graph Store.
GraphSize ==
    Cardinality(players) + Cardinality(parties) + Cardinality(clans) + Cardinality(conversations)
    + Cardinality(messages)
    + EdgeTotal(SENT_REQUEST) + EdgeTotal(FRIENDS_WITH) + EdgeTotal(BLOCKED) + EdgeTotal(FOLLOWS)
    + BagCardinality(IN_PARTY) + InviteTotal(INVITED_TO) + BagCardinality(BELONGS_TO)
    + MemberTotal(MEMBER_OF)

\* The application serves requests between startup and shutdown.
Serving == phase = "serving"

\* The graph has room for what one more creating request adds.
Room == GraphSize < MaxGraph

(***************************************************************************)
(* The service specification: the lifespan connects, then requests arrive  *)
(* at the seven routers one at a time, each passing require_neo4j before   *)
(* its handler runs, until the lifespan closes the driver.                 *)
(***************************************************************************)
NextService ==
    \/ \E outcome \in ProbeOutcomes : connect_neo4j(outcome)
    \/ close_neo4j
    \/ \E p \in LedgerIds :
          /\ Serving /\ Room
          /\ IF is_neo4j_connected
             THEN /\ create_player_node(p)
                  /\ last' = Call("create_player_node", p, "", TRUE, 0)
             ELSE Unavailable("player_nodes_router")
    \/ \E a, b \in LedgerIds :
          /\ Serving /\ Room
          /\ IF is_neo4j_connected
             THEN /\ send_friend_request(a, b)
                  /\ last' = Call("send_friend_request", a, b, BothExist(a, b), 0)
             ELSE Unavailable("friends_router")
    \/ \E a, b \in LedgerIds :
          /\ Serving /\ Room
          /\ IF is_neo4j_connected
             THEN /\ accept_friend_request(a, b)
                  /\ last' = Call("accept_friend_request", a, b, SENT_REQUEST[a][b] > 0,
                                  SENT_REQUEST[a][b])
             ELSE Unavailable("friends_router")
    \/ \E a, b \in LedgerIds :
          /\ Serving /\ Room
          /\ IF is_neo4j_connected
             THEN /\ block_player(a, b)
                  /\ last' = Call("block_player", a, b, BothExist(a, b), FriendEdgesBetween(a, b))
             ELSE Unavailable("blocking_router")
    \/ \E a, b \in LedgerIds :
          /\ Serving
          /\ IF is_neo4j_connected
             THEN /\ unblock_player(a, b)
                  /\ last' = Call("unblock_player", a, b, BLOCKED[a][b] > 0, BLOCKED[a][b])
             ELSE Unavailable("blocking_router")
    \/ \E c \in ConvIds, ps \in ParticipantLists :
          /\ Serving /\ Room
          /\ IF is_neo4j_connected
             THEN /\ create_conversation(c, ps)
                  /\ last' = Call("create_conversation", c, ps, TRUE, 0)
             ELSE Unavailable("messaging_router")
    \/ \E y \in PartyIds, p \in LedgerIds :
          /\ Serving /\ Room
          /\ IF is_neo4j_connected
             THEN /\ create_party(y, p)
                  /\ last' = Call("create_party", y, p, p \in players, 0)
             ELSE Unavailable("party_router")
    \/ \E y \in PartyIds, p, q \in LedgerIds :
          /\ Serving /\ Room
          /\ IF is_neo4j_connected
             THEN /\ invite_to_party(y, p, q)
                  /\ last' = Call("invite_to_party", y, q, PartyAndPlayerExist(y, q), 0)
             ELSE Unavailable("party_router")
    \/ \E y \in PartyIds, p \in LedgerIds :
          /\ Serving /\ Room
          /\ IF is_neo4j_connected
             THEN /\ join_party(y, p)
                  /\ last' = Call("join_party", y, p, PartyAndPlayerExist(y, p), INVITED_TO[p][y])
             ELSE Unavailable("party_router")
    \/ \E y \in PartyIds, p \in LedgerIds :
          /\ Serving
          /\ IF is_neo4j_connected
             THEN /\ leave_party(y, p)
                  /\ last' = Call("leave_party", y, p, InPartyEdges(IN_PARTY, p, y) > 0,
                                  InPartyEdges(IN_PARTY, p, y))
             ELSE Unavailable("party_router")
    \/ \E k \in ClanIds, p \in LedgerIds :
          /\ Serving /\ Room
          /\ IF is_neo4j_connected
             THEN /\ create_clan(k, p)
                  /\ last' = Call("create_clan", k, p, p \in players, 0)
             ELSE Unavailable("clan_router")
    \/ \E k \in ClanIds, p \in LedgerIds :
          /\ Serving /\ Room
          /\ IF is_neo4j_connected
             THEN /\ join_clan(k, p)
                  /\ last' = Call("join_clan", k, p, p \in players /\ k \in clans, 0)
             ELSE Unavailable("clan_router")
    \/ \E a, b \in LedgerIds :
          /\ Serving /\ Room
          /\ IF is_neo4j_connected
             THEN /\ follow_player(a, b)
                  /\ last' = Call("follow_player", a, b, BothExist(a, b), 0)
             ELSE Unavailable("follow_router")

SpecService == Init /\ [][NextService]_vars

(***************************************************************************)
(* The disbanding specification: two players create, fill and disband      *)
(* parties and clans, one call at a time; `last` records the call that     *)
(* returned and, for a disband, how many relationships the node had.       *)
(***************************************************************************)

\* IN_PARTY, INVITED_TO and BELONGS_TO edges in the graph.
PartyAndClanEdges ==
    BagCardinality(IN_PARTY) + InviteTotal(INVITED_TO) + BagCardinality(BELONGS_TO)

\* Relationships DETACH DELETE removes together with one party node.
PartyDegree(party_id) ==
    BagCardinality(EdgesWhere(IN_PARTY, {e \in BagToSet(IN_PARTY) : e.party = party_id}))
    + SumOver([p \in PlayerIds |-> INVITED_TO[p][party_id]], PlayerIds)

NextDisband ==
    \/ \E p \in LedgerIds :
          create_player_node(p) /\ last' = Call("create_player_node", p, "", TRUE, 0)
    \/ \E y \in PartyIds, p \in LedgerIds :
          /\ PartyAndClanEdges < MaxEdges
          /\ create_party(y, p)
          /\ last' = Call("create_party", y, p, p \in players, 0)
    \/ \E y \in PartyIds, p, q \in LedgerIds :
          /\ PartyAndClanEdges < MaxEdges
          /\ invite_to_party(y, p, q)
          /\ last' = Call("invite_to_party", y, q, PartyAndPlayerExist(y, q), 0)
    \/ \E y \in PartyIds, p \in LedgerIds :
          /\ PartyAndClanEdges < MaxEdges
          /\ join_party(y, p)
          /\ last' = Call("join_party", y, p, PartyAndPlayerExist(y, p), INVITED_TO[p][y])
    \/ \E y \in PartyIds :
          /\ disband_party(y)
          /\ last' = Call("disband_party", y, "", y \in parties, PartyDegree(y))
    \/ \E k \in ClanIds, p \in LedgerIds :
          /\ PartyAndClanEdges < MaxEdges
          /\ create_clan(k, p)
          /\ last' = Call("create_clan", k, p, p \in players, 0)
    \/ \E k \in ClanIds, p \in LedgerIds :
          /\ PartyAndClanEdges < MaxEdges
          /\ join_clan(k, p)
          /\ last' = Call("join_clan", k, p, p \in players /\ k \in clans, 0)
    \/ \E k \in ClanIds :
          /\ disband_clan(k)
          /\ last' = Call("disband_clan", k, "", k \in clans, MembersIn(BELONGS_TO, k))

SpecDisband == Init /\ [][NextDisband]_vars

(***************************************************************************)
(* Claims                                                                  *)
(***************************************************************************)

IsCall(c, op, a, b) == c.op = op /\ c.a = a /\ c.b = b

\* C1: in every reachable state, no pair of players has both a FRIENDS_WITH edge
\* and a BLOCKED edge (in either direction) between them.
C1_NeverFriendsAndBlocked ==
    \A a, b \in PlayerIds :
        a # b =>
        ~(FRIENDS_WITH[a][b] > 0 /\ (BLOCKED[a][b] > 0 \/ BLOCKED[b][a] > 0))

\* C2: when accept_friend_request(A,B) follows send_friend_request(A,B), then
\* get_friends(A) contains B, get_friends(B) contains A, and no SENT_REQUEST edge
\* remains between A and B in either direction.
C2_SendThenAccept ==
    [][\A a, b \in PlayerIds :
          (/\ IsCall(last, "send_friend_request", a, b) /\ last.ok
           /\ IsCall(last', "accept_friend_request", a, b))
          => /\ b \in BagToSet(get_friends(a))'
             /\ a \in BagToSet(get_friends(b))'
             /\ SENT_REQUEST'[a][b] = 0
             /\ SENT_REQUEST'[b][a] = 0]_vars

\* C3: after block_player(A,B) has succeeded, get_friends(A) does not contain B
\* and get_friends(B) does not contain A, whatever the state before the call.
C3_BlockEndsFriendship ==
    \A a, b \in PlayerIds :
        (IsCall(last, "block_player", a, b) /\ last.ok)
        => /\ b \notin BagToSet(get_friends(a))
           /\ a \notin BagToSet(get_friends(b))

\* C3 witness: a block_player that succeeded on a pair that were friends.
C3_Witness ==
    /\ last.op = "block_player" /\ last.ok /\ last.matched > 0
    /\ last.a # last.b
    /\ BLOCKED[last.a][last.b] > 0

\* C4: a block_player(A,B) that directly follows a successful block_player(A,B)
\* succeeds and leaves the graph, and so get_blocked_players(A), as they were.
C4_BlockIdempotent ==
    [][\A a, b \in PlayerIds :
          (/\ a # b
           /\ IsCall(last, "block_player", a, b) /\ last.ok
           /\ IsCall(last', "block_player", a, b))
          => /\ last'.ok
             /\ get_blocked_players(a)' = get_blocked_players(a)
             /\ UNCHANGED <<players, friendVars>>]_vars

\* C5: every step of accept_friend_request(from,to) either removes all its
\* SENT_REQUEST(from->to) edges and adds a FRIENDS_WITH edge in both directions
\* for each, or changes nothing: no step leaves the request deleted with fewer
\* than both directions created.
C5_AcceptAtomic ==
    [][\A a, b \in PlayerIds :
          IsCall(last', "accept_friend_request", a, b)
          => IF last'.ok
             THEN /\ SENT_REQUEST[a][b] > 0
                  /\ SENT_REQUEST'[a][b] = 0
                  /\ FRIENDS_WITH'[a][b] >= FRIENDS_WITH[a][b] + SENT_REQUEST[a][b]
                  /\ FRIENDS_WITH'[b][a] >= FRIENDS_WITH[b][a] + SENT_REQUEST[a][b]
             ELSE UNCHANGED <<players, friendVars>>]_vars

\* C5 witness: an accept_friend_request between two players has returned a record.
C5_Witness ==
    /\ last.op = "accept_friend_request" /\ last.ok
    /\ last.a # last.b
    /\ SENT_REQUEST[last.a][last.b] = 0
    /\ FRIENDS_WITH[last.a][last.b] > 0
    /\ FRIENDS_WITH[last.b][last.a] > 0

\* Number of BELONGS_TO edges into a clan that carry a given rank.
RankHolders(clan_id, rank) ==
    BagCardinality(EdgesWhere(BELONGS_TO, {e \in BagToSet(BELONGS_TO) : e.clan = clan_id /\ e.rank = rank}))

\* Every member of the clan holds a single BELONGS_TO edge to it.
DistinctMembers(clan_id) ==
    \A p \in PlayerIds :
        BagCardinality(EdgesWhere(BELONGS_TO, {e \in BagToSet(BELONGS_TO) : e.clan = clan_id /\ e.player = p})) <= 1

\* C6: whatever the interleaving of the count and create queries of overlapping
\* join_clan calls by distinct players, a clan whose memberships all come from
\* create_clan and join_clan holds each of the ranks 1..n exactly once, n being
\* its size.
C6_ConcurrentJoinRanks ==
    \A c \in clans :
        (joinsOnly[c] /\ DistinctMembers(c)) =>
            \A r \in 1..MembersIn(BELONGS_TO, c) : RankHolders(c, r) = 1

\* C7: within one clan, every rank given to a new BELONGS_TO edge is strictly
\* greater than every rank given there before.
C7_RanksNeverReused ==
    \A c \in ClanIds :
        \A i, j \in 1..Len(rankLog[c]) : i < j => rankLog[c][i] < rankLog[c][j]

\* C8: no result of get_friend_suggestions(A, limit) contains A, a player A has a
\* FRIENDS_WITH edge to, a player A has BLOCKED, or a player who has BLOCKED A.
C8_SuggestionsExclude ==
    \A p \in PlayerIds, limit \in 0..MaxLimit :
        \A r \in get_friend_suggestions(p, limit) :
            \A i \in DOMAIN r :
                /\ r[i].player_id # p
                /\ FRIENDS_WITH[p][r[i].player_id] = 0
                /\ BLOCKED[p][r[i].player_id] = 0
                /\ BLOCKED[r[i].player_id][p] = 0

\* The players F with FRIENDS_WITH(A->F) and FRIENDS_WITH(F->C).
IntermediateFriends(a, c) ==
    {f \in PlayerIds : FRIENDS_WITH[a][f] > 0 /\ FRIENDS_WITH[f][c] > 0}

\* C9: in every result of get_friend_suggestions(A, limit) each row's
\* mutual_friends is the number of distinct intermediate friends, each candidate
\* appears once, and the rows are in non-increasing order of mutual_friends.
C9_SuggestionCounts ==
    \A p \in PlayerIds, limit \in 0..MaxLimit :
        \A r \in get_friend_suggestions(p, limit) :
            /\ \A i \in DOMAIN r :
                   r[i].mutual_friends = Cardinality(IntermediateFriends(p, r[i].player_id))
            /\ \A i, j \in DOMAIN r : i # j => r[i].player_id # r[j].player_id
            /\ \A i, j \in DOMAIN r : i < j => r[i].mutual_friends >= r[j].mutual_friends

\* C10: for all players A, B, distinct or not, the players get_mutual_friends(A,B)
\* returns are exactly those get_friends(A) and get_friends(B) both return.
C10_MutualIsIntersection ==
    \A a, b \in PlayerIds :
        BagToSet(get_mutual_friends(a, b))
            = BagToSet(get_friends(a)) \cap BagToSet(get_friends(b))

\* C11: in every reachable state a SENT_REQUEST edge between two players never
\* coexists with a FRIENDS_WITH or a BLOCKED edge between them, in either direction.
C11_RequestExcludesFriendOrBlock ==
    \A a, b \in PlayerIds :
        (a # b /\ SENT_REQUEST[a][b] > 0)
        => /\ FRIENDS_WITH[a][b] = 0 /\ FRIENDS_WITH[b][a] = 0
           /\ BLOCKED[a][b] = 0 /\ BLOCKED[b][a] = 0

\* C12: there is at most one SENT_REQUEST edge per ordered pair of players, and a
\* send_friend_request(A,B) made while a request exists from A to B or from B to A
\* fails and leaves the graph unchanged.
C12_OneRequestPerPair ==
    /\ [](\A a, b \in PlayerIds : a # b => SENT_REQUEST[a][b] <= 1)
    /\ [][\A a, b \in PlayerIds :
             (/\ IsCall(last', "send_friend_request", a, b)
              /\ a # b
              /\ SENT_REQUEST[a][b] + SENT_REQUEST[b][a] > 0)
             => /\ ~last'.ok
                /\ UNCHANGED <<players, friendVars>>]_vars

\* C13: send_friend_request(A,A) fails and creates no edge, and no player ever has
\* a SENT_REQUEST or a FRIENDS_WITH edge to itself.
C13_NoSelfRequest ==
    /\ [](\A a \in PlayerIds : SENT_REQUEST[a][a] = 0 /\ FRIENDS_WITH[a][a] = 0)
    /\ [][\A a \in PlayerIds :
             IsCall(last', "send_friend_request", a, a)
             => /\ ~last'.ok
                /\ UNCHANGED <<players, friendVars>>]_vars

\* C14 as stated: an accept_friend_request(from,to) between two existing players,
\* made while no SENT_REQUEST from -> to exists, is answered 404 (NotFound) and
\* leaves the graph unchanged.
C14_AcceptWithoutRequestNotFound ==
    [][\A a, b \in PlayerIds :
          (/\ IsCall(last', "accept_friend_request", a, b)
           /\ a # b /\ BothExist(a, b)
           /\ SENT_REQUEST[a][b] = 0)
          => /\ Status(last') = HTTP_NOT_FOUND
             /\ UNCHANGED <<players, friendVars>>]_vars

\* C14 amended: an accept_friend_request(from,to) made while no SENT_REQUEST
\* from -> to exists, a request to -> from or not, is answered 400, creates no
\* FRIENDS_WITH edge and leaves the graph unchanged.
C14_AcceptWithoutRequestFails ==
    [][\A a, b \in PlayerIds :
          (IsCall(last', "accept_friend_request", a, b) /\ SENT_REQUEST[a][b] = 0)
          => /\ Status(last') = HTTP_BAD_REQUEST
             /\ UNCHANGED <<players, friendVars>>]_vars

\* C14 witness: an accept_friend_request(from,to) was refused while the reverse
\* request to -> from is pending.
C14_Witness ==
    \E a, b \in PlayerIds :
        /\ a # b
        /\ IsCall(last, "accept_friend_request", a, b)
        /\ ~last.ok
        /\ SENT_REQUEST[b][a] > 0

\* C15: FRIENDS_WITH is symmetric in every reachable state (an edge A -> B exists
\* exactly when an edge B -> A exists); a remove_friend(a,b) that finds the
\* friendship removes both directions in its one step, and one that finds none is
\* answered 404 and changes nothing.
C15_FriendsSymmetric ==
    /\ [](\A a, b \in PlayerIds : (FRIENDS_WITH[a][b] > 0) <=> (FRIENDS_WITH[b][a] > 0))
    /\ [][\A a, b \in PlayerIds :
             IsCall(last', "remove_friend", a, b)
             => IF FRIENDS_WITH[a][b] + FRIENDS_WITH[b][a] > 0
                THEN /\ last'.ok
                     /\ FRIENDS_WITH'[a][b] = 0
                     /\ FRIENDS_WITH'[b][a] = 0
                ELSE /\ Status(last') = HTTP_NOT_FOUND
                     /\ UNCHANGED <<players, friendVars>>]_vars

\* C15 witness: a remove_friend called by the player who had accepted the request
\* (the other side of the pair) has succeeded.
C15_Witness ==
    \E a, b \in PlayerIds :
        /\ a # b
        /\ IsCall(last, "remove_friend", a, b)
        /\ last.ok
        /\ last.matched >= 2
        /\ FRIENDS_WITH[a][b] = 0 /\ FRIENDS_WITH[b][a] = 0

\* C16: a single block_player(P1,P2) between two friends with no earlier block
\* leaves P2 out of get_friends(P1) and in get_blocked_players(P1) exactly once.
C16_BlockFriendOnce ==
    [][\A a, b \in PlayerIds :
          (/\ IsCall(last', "block_player", a, b)
           /\ a # b
           /\ FRIENDS_WITH[a][b] > 0 /\ FRIENDS_WITH[b][a] > 0
           /\ BLOCKED[a][b] = 0)
          => /\ last'.ok
             /\ FRIENDS_WITH'[a][b] = 0
             /\ BLOCKED'[a][b] = 1]_vars

\* Number of IN_PARTY edges a player holds, over all parties.
PartyMemberships(player_id) ==
    BagCardinality(EdgesWhere(IN_PARTY, {e \in BagToSet(IN_PARTY) : e.player = player_id}))

\* C17: in every reachable state each player has at most one IN_PARTY edge.
C17_OnePartyPerPlayer ==
    \A p \in PlayerIds : PartyMemberships(p) <= 1

\* Number of BELONGS_TO edges a player holds, over all clans.
ClanMemberships(player_id) ==
    BagCardinality(EdgesWhere(BELONGS_TO, {e \in BagToSet(BELONGS_TO) : e.player = player_id}))

\* C18: in every reachable state each player has at most one BELONGS_TO edge.
C18_OneClanPerPlayer ==
    \A p \in PlayerIds : ClanMemberships(p) <= 1

\* Number of IN_PARTY edges with role leader into a party.
Leaders(party_id) ==
    BagCardinality(EdgesWhere(IN_PARTY,
        {e \in BagToSet(IN_PARTY) : e.party = party_id /\ e.role = "leader"}))

\* C19: in every reachable state every existing party has exactly one IN_PARTY
\* edge whose role is leader.
C19_OneLeaderPerParty ==
    \A y \in parties : Leaders(y) = 1

\* C20: after a join_party(party, player) by a player who was not in the party
\* has succeeded, no INVITED_TO edge from the player to the party remains and the
\* player has exactly one IN_PARTY edge to it, however many invitations were
\* outstanding.
C20_JoinConsumesInvites ==
    [][\A y \in PartyIds, p \in PlayerIds :
          (/\ IsCall(last', "join_party", y, p)
           /\ last'.ok
           /\ InPartyEdges(IN_PARTY, p, y) = 0)
          => /\ INVITED_TO'[p][y] = 0
             /\ InPartyEdges(IN_PARTY', p, y) = 1]_vars

\* C30: in every reachable state there is at most one FRIENDS_WITH edge per
\* ordered pair of players, so get_friends(A) lists each friend once.
C30_OneFriendshipPerPair ==
    \A a \in PlayerIds :
        \A b \in BagToSet(get_friends(a)) :
            a # b => CopiesIn(b, get_friends(a)) = 1

\* The BELONGS_TO edges of a clan all stem from create_clan and join_clan calls
\* since the clan was created: every rank handed out is still held.
NoneRemoved(clan_id) == Len(rankLog[clan_id]) = MembersIn(BELONGS_TO, clan_id)

\* C29: in a clan that was created by create_clan and then only joined, one call
\* at a time, by distinct players, the n-th joiner was given rank n+1 and the
\* ranks held are exactly 1..n+1, each once.
C29_SequentialJoinRanks ==
    \A c \in clans :
        (NoneRemoved(c) /\ DistinctMembers(c))
        => /\ \A i \in 1..Len(rankLog[c]) : rankLog[c][i] = i
           /\ \A r \in 1..MembersIn(BELONGS_TO, c) : RankHolders(c, r) = 1

\* C29 witness: a clan holds its owner and two members who joined after it.
C29_Witness ==
    \E c \in clans :
        /\ NoneRemoved(c)
        /\ DistinctMembers(c)
        /\ MembersIn(BELONGS_TO, c) = 3
        /\ rankLog[c] = <<1, 2, 3>>

\* C22: a send_message by a player who has no MEMBER_OF edge to the conversation
\* when the call is made (never joined, or left) is refused and creates no
\* Message node.
C22_NonMemberSendRefused ==
    [][\A c \in ConvIds, p \in PlayerIds :
          (IsCall(last', "send_message", c, p) /\ MEMBER_OF[p][c] = 0)
          => /\ ~last'.ok
             /\ messages' = messages]_vars

\* C23: in every reachable state every Message node has exactly one SENT edge
\* from an existing player and exactly one CONTAINS edge from an existing
\* conversation.
C23_MessageHasSenderAndParent ==
    \A m \in messages : m.sender \in players /\ m.conv \in conversations

\* All the Message nodes a conversation CONTAINS.
ConvMessages(conversation_id) == {m \in messages : m.conv = conversation_id}

\* The one arrangement newest first, equal timestamps ordered by message identity.
NewestFirst(rows) ==
    CHOOSE s \in TimestampDesc(rows) :
        \A i, j \in DOMAIN s :
            (i < j /\ s[i].timestamp = s[j].timestamp) => s[i].message_id > s[j].message_id

\* C24: for a conversation all of whose messages still have their sender,
\* get_messages(conv, limit, offset) can only return the elements at positions
\* offset .. offset+limit-1 of the conversation's messages in the one fixed
\* newest-first total order (timestamp, ties broken by message identity).
C24_StablePages ==
    \A c \in conversations, limit \in 1..MaxLimit, offset \in 0..MaxMessages :
        (\A m \in ConvMessages(c) : m.sender # NoSender)
        => get_messages(c, limit, offset) = {SkipLimit(NewestFirst(ConvMessages(c)), offset, limit)}

\* C25: right after a create_conversation returns, either it reported success
\* and the conversation exists with a MEMBER_OF edge for every listed
\* participant, or it reported failure and neither the conversation nor any
\* MEMBER_OF edge to it exists.
C25_CreateConversationAllOrNothing ==
    \A c \in ConvIds :
        (last.op = "create_conversation" /\ last.a = c)
        => \/ /\ last.ok
              /\ c \in conversations
              /\ \A i \in DOMAIN last.b : MEMBER_OF[last.b[i]][c] >= 1
           \/ /\ ~last.ok
              /\ c \notin conversations
              /\ \A p \in PlayerIds : MEMBER_OF[p][c] = 0

\* C26: in every reachable state there is at most one MEMBER_OF edge per
\* (player, conversation) pair.
C26_OneMembershipPerPair ==
    \A p \in PlayerIds, c \in ConvIds : MEMBER_OF[p][c] <= 1

\* C27: for the whole lifetime of the process the connected flag tells whether
\* the startup probe succeeded; when the probe failed (service unavailable,
\* authentication error or any other exception) every request to every graph
\* router is answered 503 by require_neo4j, its handler never runs and the graph
\* is not touched; when the probe succeeded no request is answered by
\* require_neo4j.
C27_ProbeGatesEveryRouter ==
    /\ [](phase # "startup" => (connected <=> probe = "ok"))
    /\ [][(phase = "serving" /\ phase' = "serving")
          => IF probe = "ok"
             THEN last'.op # "require_neo4j"
             ELSE /\ last'.op = "require_neo4j"
                  /\ last'.a \in Routers
                  /\ Status(last') = HTTP_UNAVAILABLE
                  /\ UNCHANGED graphVars]_vars

\* C27 witness: the probe ended in an authentication error and a request to the
\* clan router was answered 503.
C27_Witness ==
    /\ probe = "AuthError"
    /\ phase = "serving"
    /\ last = Call("require_neo4j", "clan_router", "", FALSE, 0)
    /\ Status(last) = HTTP_UNAVAILABLE

OtherPartyEdges(in_party, invited_to, party_id) ==
    <<EdgesWhere(in_party, {e \in BagToSet(in_party) : e.party # party_id}),
      [p \in PlayerIds |-> [y \in PartyIds \ {party_id} |-> invited_to[p][y]]]>>

OtherClanEdges(belongs_to, clan_id) ==
    EdgesWhere(belongs_to, {e \in BagToSet(belongs_to) : e.clan # clan_id})

\* No IN_PARTY, INVITED_TO or BELONGS_TO edge references a node that is gone.
NoDanglingEdges ==
    /\ \A e \in BagToSet(IN_PARTY) : e.party \in parties
    /\ \A p \in PlayerIds, y \in PartyIds : INVITED_TO[p][y] > 0 => y \in parties
    /\ \A e \in BagToSet(BELONGS_TO) : e.clan \in clans

\* C21: disband_party and disband_clan remove the node together with every
\* IN_PARTY and INVITED_TO (respectively BELONGS_TO) edge that references it in
\* one step: no state shows an edge to a node that is gone, the step that
\* removes the node removes all its edges, and the nodes and memberships of the
\* other parties and clans are unchanged by it.
C21_DisbandDetachesInOneStep ==
    /\ []NoDanglingEdges
    /\ [][/\ \A y \in PartyIds :
                (IsCall(last', "disband_party", y, "") /\ y \in parties)
                => /\ parties' = parties \ {y}
                   /\ PartyDegree(y)' = 0
                   /\ OtherPartyEdges(IN_PARTY', INVITED_TO', y)
                        = OtherPartyEdges(IN_PARTY, INVITED_TO, y)
                   /\ UNCHANGED <<players, clans, BELONGS_TO>>
          /\ \A k \in ClanIds :
                (IsCall(last', "disband_clan", k, "") /\ k \in clans)
                => /\ clans' = clans \ {k}
                   /\ MembersIn(BELONGS_TO', k) = 0
                   /\ OtherClanEdges(BELONGS_TO', k) = OtherClanEdges(BELONGS_TO, k)
                   /\ UNCHANGED <<players, parties, IN_PARTY, INVITED_TO>>]_vars

\* C21 witness: a party that had a member and an invitation was disbanded while
\* a clan keeps its member.
C21_Witness ==
    \E y \in PartyIds :
        /\ IsCall(last, "disband_party", y, "")
        /\ last.ok
        /\ last.matched >= 2
        /\ y \notin parties
        /\ BagCardinality(BELONGS_TO) > 0

====
